---- MODULE Spec2Model ----
(***************************************************************************)
(* Model of the door-unlock system: the server-side liveness check         *)
(* (perform_liveness_check of recognition_server), the /recognize route,   *)
(* and the Pi-side capture / keypad / lock-relay threads (cam_script.py).   *)
(*                                                                         *)
(* Units.  Pixel intensities are integers 0..255.  A heatmap cell holds    *)
(* twice the intensity (unit 1/510) so that the median of an even number   *)
(* of cells stays an integer.  Similarity scores are held in hundredths.   *)
(***************************************************************************)
EXTENDS Integers, Sequences, FiniteSets, TLC

(***************************************************************************)
(* Bounds of the model                                                     *)
(***************************************************************************)
FrameW == 7
FrameH == 3
MaxOff == 1
MaxTime == 37
RoiSide == 3
MaxKernel == 2
MaxCalls == 1

(***************************************************************************)
(* Program constants                                                       *)
(***************************************************************************)
MinDots == 5
SIMILARITY_THRESHOLD == 30
MSE_THRESHOLD == 5
MaxWin == 7
MinWin == 3
DefaultScore == -100

\* cam_script.py
FACE_DETECT_DELAY == 2
COOLDOWN_SECONDS_ON_UNLOCK == 30
UnlockHold == 5
MaxCodeLen == 6

\* recognition_server
DEEPFACE_RECOGNITION_THRESHOLD == 35

None == "None"

\* np.nan, held as an integer no intensity or score can take
NaN == -999999

\* values of names that are None or not yet assigned
NoFace == [fx |-> 0, fy |-> 0, fw |-> -1, fh |-> -1]
NoHeatmap == [h |-> -1, w |-> -1, cells |-> <<>>]
NoRoi == [fx_c |-> 0, fy_c |-> 0, fw_c |-> -1, fh_c |-> -1]
NoShape == <<-1, -1>>
NoWin == -1
NoTime == -1

Max2(a, b) == IF a >= b THEN a ELSE b
Min2(a, b) == IF a <= b THEN a ELSE b

(***************************************************************************)
(* Inputs of the liveness check: the captured frame, the detector boxes,   *)
(* the blob detector's keypoints, the scores the metric returns.           *)
(***************************************************************************)
Images == {"uniform", "ramp"}

\* pixel of the captured grayscale frame (cv2.cvtColor(..., COLOR_BGR2GRAY)).
\* Both test images are affine in (x, y), so that linear interpolation
\* between any dots reproduces the image exactly.
GrayPixel(img, x, y) ==
    IF img = "uniform" THEN 200 ELSE 15 + 20 * x + 10 * y

\* cv2.bitwise_not on an 8-bit image
bitwise_not(v) == 255 - v

ImagePoints == (0 .. FrameW - 1) \X (0 .. FrameH - 1)

Rect(x0, x1, y0, y1) == (x0 .. x1) \X (y0 .. y1)

\* dot patterns the blob detector may report: rectangular grids of projected
\* dots starting in the first column and in the first or second row
KeypointSets ==
    {{}} \cup { Rect(0, q[1], q[2], q[3]) :
                  q \in { r \in (0 .. FrameW - 1) \X (0 .. 1) \X (0 .. FrameH - 1) :
                            r[2] <= r[3] } }

\* boxes the face detector may report, in frame or (stale) partly outside
Boxes ==
    [ fx : {-MaxOff, 0, 1, FrameW},
      fy : {-MaxOff, 0},
      fw : {0, FrameW - 1, FrameW, FrameW + MaxOff},
      fh : {FrameH, FrameH + MaxOff} ]

\* what detectMultiScale may return: no face, one face, or two faces
FaceLists ==
    {<<>>} \cup { <<b>> : b \in Boxes }
           \cup { <<b[1], b[2]>> : b \in Boxes \X Boxes }

SsimScores == {-100, 0, 30, 31, 100, NaN}
MseScores == {0, 4, 5, 100, NaN}

(***************************************************************************)
(* Pure steps of the dot extractor and heatmap builder                     *)
(***************************************************************************)

\* the keypoints of a dot pattern in the detector's (row-major) order
RECURSIVE KeypointList(_)
KeypointList(S) ==
    IF S = {} THEN <<>>
    ELSE LET first == CHOOSE p \in S :
                        \A q \in S : p[2] < q[2] \/ (p[2] = q[2] /\ p[1] <= q[1])
         IN  <<first>> \o KeypointList(S \ {first})

\* faces = sorted(faces, key=lambda f: f[2]*f[3], reverse=True); faces[0]
\* (the sort is stable: of equal areas the earlier box stays first)
LargestFace(faces) ==
    LET area(i) == faces[i].fw * faces[i].fh
        best == CHOOSE i \in 1 .. Len(faces) :
                   /\ \A j \in 1 .. Len(faces) : area(j) <= area(i)
                   /\ \A j \in 1 .. (i - 1) : area(j) < area(i)
    IN  faces[best]

\* a filter that also keeps the dots on the border of the box
InsideFaceInclusive(b, x, y) ==
    /\ b.fx <= x /\ x <= b.fx + b.fw
    /\ b.fy <= y /\ y <= b.fy + b.fh

\* if fx < x < fx + fw and fy < y < fy + fh
InsideFace(b, x, y) ==
    /\ b.fx < x /\ x < b.fx + b.fw
    /\ b.fy < y /\ y < b.fy + b.fh

\* what the name gray holds at pixel (x, y)
GrayAt(img, g, x, y) ==
    IF g = "inverted" THEN bitwise_not(GrayPixel(img, x, y))
    ELSE GrayPixel(img, x, y)

\* intensity = gray[y_clamped, x_clamped]
SampleIntensity(img, g, x, y) ==
    LET y_clamped == Max2(0, Min2(y, FrameH - 1))
        x_clamped == Max2(0, Min2(x, FrameW - 1))
    IN  GrayAt(img, g, x_clamped, y_clamped)

\* the for-loop over all_keypoints: the indices that are kept, in order
RECURSIVE KeptIndices(_, _, _)
KeptIndices(kps, b, i) ==
    IF i > Len(kps) THEN <<>>
    ELSE IF InsideFace(b, kps[i][1], kps[i][2])
         THEN <<i>> \o KeptIndices(kps, b, i + 1)
         ELSE KeptIndices(kps, b, i + 1)

Cross(o, a, b) == (a[1] - o[1]) * (b[2] - o[2]) - (a[2] - o[2]) * (b[1] - o[1])
Dot(o, a, b) == (a[1] - o[1]) * (b[1] - o[1]) + (a[2] - o[2]) * (b[2] - o[2])

SeqRange(s) == { s[i] : i \in 1 .. Len(s) }

\* Qhull cannot triangulate fewer than three points or points on one line
Collinear(P) == \A a \in P, b \in P, c \in P : Cross(a, b, c) = 0

\* p lies outside the convex hull of P iff some a in P is a tangent point:
\* every point of P is on one side of the ray from p through a
InHull(p, P) ==
    ~ \E a \in P :
         /\ a # p
         /\ \A b \in P : \/ Cross(p, a, b) > 0
                         \/ (Cross(p, a, b) = 0 /\ Dot(p, a, b) > 0)

\* linear interpolation at p inside a triangle of data points (barycentric
\* weights are the sub-triangle areas); i, j, k index the data
Barycentric(p, pts, vals, t) ==
    LET a == pts[t[1]]  b == pts[t[2]]  c == pts[t[3]]
        d == Cross(a, b, c)
    IN  (Cross(p, b, c) * vals[t[1]] + Cross(a, p, c) * vals[t[2]]
           + Cross(a, b, p) * vals[t[3]]) \div d

InTriangle(p, a, b, c) ==
    LET d == Cross(a, b, c)
        s == IF d > 0 THEN 1 ELSE -1
    IN  /\ d # 0
        /\ s * Cross(p, b, c) >= 0
        /\ s * Cross(a, p, c) >= 0
        /\ s * Cross(a, b, p) >= 0

\* scipy.interpolate.griddata(points, values, grid, method='linear',
\* fill_value=nan) followed by the transpose: a cell per (row, col) of the
\* face box, NaN outside the convex hull of the points. A degenerate point
\* set makes it raise QhullError instead.
GriddataRaises(pts) == Collinear(SeqRange(pts))

griddata(pts, vals, b) ==
         [ rc \in (0 .. b.fh - 1) \X (0 .. b.fw - 1) |->
             LET p == <<b.fx + rc[2], b.fy + rc[1]>>
             IN  IF ~ InHull(p, SeqRange(pts)) THEN NaN
                 ELSE LET n == Len(pts)
                          \* the triangles with the first point as a vertex
                          \* cover the hull
                          t == CHOOSE t \in {1} \X (2 .. n) \X (2 .. n) :
                                  /\ t[2] < t[3]
                                  /\ InTriangle(p, pts[t[1]], pts[t[2]], pts[t[3]])
                      IN  Barycentric(p, pts, vals, t) ]

\* k-th smallest (k from 0) of the defined cells
KthDefined(cells, k) ==
    LET D == { rc \in DOMAIN cells : cells[rc] # NaN }
        v == CHOOSE v \in { cells[rc] : rc \in D } :
                /\ Cardinality({ rc \in D : cells[rc] < v }) <= k
                /\ k < Cardinality({ rc \in D : cells[rc] <= v })
    IN  v

\* np.nanmedian, and 0 in its place when it is NaN (every cell undefined)
FillValue(cells) ==
    LET n == Cardinality({ rc \in DOMAIN cells : cells[rc] # NaN })
    IN  IF n = 0 THEN 0
        ELSE (KthDefined(cells, (n - 1) \div 2) + KthDefined(cells, n \div 2)) \div 2

\* if np.isnan(h).any(): h = np.nan_to_num(h, nan=median_val)
FillNaN(cells) ==
    IF \E rc \in DOMAIN cells : cells[rc] = NaN
    THEN LET m == FillValue(cells)
         IN  [ rc \in DOMAIN cells |-> IF cells[rc] = NaN THEN m ELSE cells[rc] ]
    ELSE cells

\* fx_c, fy_c, fw_c, fh_c = max(0, fx), max(0, fy),
\*                          min(fw, fw_img - fx), min(fh, fh_img - fy)
ClampRoi(b, fw_img, fh_img) ==
    [ fx_c |-> Max2(0, b.fx), fy_c |-> Max2(0, b.fy),
      fw_c |-> Min2(b.fw, fw_img - b.fx), fh_c |-> Min2(b.fh, fh_img - b.fy) ]

\* if fw_c <= 0 or fh_c <= 0: raise ValueError
DegenerateRoi(c) == c.fw_c <= 0 \/ c.fh_c <= 0

\* shape of full[fy_c:fy_c+fh_c, fx_c:fx_c+fw_c]: a numpy slice stops at the
\* array's edge
SliceShape(c, fw_img, fh_img) ==
    << Max2(0, Min2(fh_img, c.fy_c + c.fh_c) - Min2(fh_img, c.fy_c)),
       Max2(0, Min2(fw_img, c.fx_c + c.fw_c) - Min2(fw_img, c.fx_c)) >>

\* win_size = min(7, target_h // 2 * 2 + 1, target_w // 2 * 2 + 1)
\* if win_size < 3: win_size = 3
WinSize(target_h, target_w) ==
    LET w == Min2(MaxWin, Min2((target_h \div 2) * 2 + 1, (target_w \div 2) * 2 + 1))
    IN  IF w < MinWin THEN MinWin ELSE w

\* skimage's structural_similarity rejects an even window and a window that
\* exceeds either image side
SsimRaises(h, w, win) == win % 2 = 0 \/ win > h \/ win > w

\* a comparison with NaN is False
Greater(score, t) == score # NaN /\ score > t
Less(score, t) == score # NaN /\ score < t

\* a decision that treats every score as a similarity: higher is live
DecideAsSimilarity(m, score) == Greater(score, SIMILARITY_THRESHOLD)

\* is_live = similarity_score > SIMILARITY_THRESHOLD   (ssim is not None)
\* is_live = similarity_score < MSE_THRESHOLD          (otherwise)
Decide(m, score) ==
    IF m = "SSIM" THEN Greater(score, SIMILARITY_THRESHOLD)
    ELSE Less(score, MSE_THRESHOLD)

\* a check that starts out live
InitialIsLiveTrue == TRUE

\* is_live = False at entry
InitialIsLive == FALSE

\* a handler that leaves the verdict live
CompareErrorVerdictLive == [ is_live |-> TRUE, similarity_score |-> DefaultScore ]

\* except Exception as compare_error: is_live = False; similarity_score = -1.0
CompareErrorVerdict == [ is_live |-> FALSE, similarity_score |-> DefaultScore ]

\* the liveness configuration at module level (lines 49-75) that the check
\* reads: thresholds in hundredths, CLAHE, threshold and morphology parameters
ModuleConfig ==
    [ SIMILARITY_THRESHOLD |-> SIMILARITY_THRESHOLD, CLAHE_CLIP_LIMIT |-> 300,
      thresh_block_size |-> 31, thresh_C |-> 7, morph_kernel_size |-> 3,
      morph_iterations |-> 1 ]

\* a check that declares its MSE threshold global
GlobalNamesWithThreshold == {"MSE_THRESHOLD"}

\* the names perform_liveness_check declares global: none
GlobalNames == {}

\* name = value inside the function: binds the module-level name when it is
\* declared global, a local otherwise
AssignInFunction(module, name, value) ==
    IF name \in GlobalNames
    THEN [ n \in DOMAIN module \cup {name} |-> IF n = name THEN value ELSE module[n] ]
    ELSE module

(***************************************************************************)
(* State of one invocation of perform_liveness_check                       *)
(***************************************************************************)
VARIABLES
    pc,                   \* position in perform_liveness_check
    frame_ok,             \* the argument is a decodable BGR frame
    image,                \* content of the frame
    ssim,                 \* module-level ssim: TRUE when the import succeeded
    gray,                 \* "original" or "inverted": what the name gray holds
    face_cascade,         \* "loaded" or "empty"
    depth_processor, depth_model,
    face,                 \* NoFace or [fx, fy, fw, fh] of the primary face
    all_keypoints,
    face_keypoints, face_dot_coords, face_dot_intensities,
    heatmap_norm,         \* NoHeatmap or [h, w, cells]
    clamped,              \* NoRoi or [fx_c, fy_c, fw_c, fh_c]
    depth_shape,          \* NoShape or <<h, w>> of depth_map_model_norm(_resized)
    win_size,             \* NoWin or the window handed to ssim
    metric,               \* None, "SSIM" or "MSE": the metric that scored
    similarity_score,
    is_live,
    outcome,              \* "running", "returned", "raised", "exited"
    failure,              \* None or the failure that ended / diverted the run
    module_globals,       \* the module-level names the check reads
    invocations           \* invocations completed by this server process

globalVars == <<module_globals, invocations>>

liveVars ==
    <<pc, frame_ok, image, ssim, gray, face_cascade, depth_processor,
      depth_model, face, all_keypoints, face_keypoints, face_dot_coords,
      face_dot_intensities, heatmap_norm, clamped, depth_shape, win_size,
      metric, similarity_score, is_live, outcome, failure, globalVars>>

(***************************************************************************)
(* State of the Pi (cam_script.py): module globals, the lock relay, and    *)
(* the capture threads started by the main loop                            *)
(***************************************************************************)
VARIABLES
    now,                        \* time.time(), in seconds
    main_loop_running,
    awaiting_server_response,
    keypad_unlocked,
    last_recognition_time,
    face_detected_first_time,   \* NoTime or the time of the first detection
    LOCK_RELAY,                 \* "LOW" or "HIGH"
    captures,                   \* the running capture_and_send_sequence threads
    entered_code,               \* the keys entered so far
    keypad,                     \* keypad_monitor_thread_func: where it is
    main_pc,                    \* recognition_and_capture_loop: where it is
    face_run,                   \* every iteration that had a frame since
                                \* face_detected_first_time was set ran the
                                \* detection and found a face
    streaming_active,
    latest_frame_for_stream,    \* "None" or "frame"
    stop_stream,                \* handle_stop_stream: where it is
    since_stop,                 \* handle_stop_stream has returned and
                                \* handle_start_stream was not called since
    stream_client               \* generate_stream_frames: where it is, and
                                \* its frame_to_encode

keypadVars == <<entered_code, keypad>>

loopVars == <<main_pc, face_run>>

streamVars ==
    <<streaming_active, latest_frame_for_stream, stop_stream, since_stop,
      stream_client>>

piVars ==
    <<now, main_loop_running, awaiting_server_response, keypad_unlocked,
      last_recognition_time, face_detected_first_time, LOCK_RELAY, captures,
      keypadVars, loopVars, streamVars>>

(***************************************************************************)
(* State of one call of _create_single_pseudo_depth_map                    *)
(* (pseudo_depth_generator.py) or of apply_elliptical_vignette             *)
(* (vignette_utils.py): the arguments and the locals of the call           *)
(***************************************************************************)
VARIABLES
    call,     \* which function is running: "none", "pseudo_depth", "vignette"
    pd,       \* arguments and locals of _create_single_pseudo_depth_map
    vg        \* arguments and locals of apply_elliptical_vignette

depthVars == <<call, pd, vg>>

vars == <<liveVars, piVars, depthVars>>

(***************************************************************************)
(* perform_liveness_check, stage by stage                                  *)
(***************************************************************************)
LiveInit ==
    /\ pc = "entry"
    /\ frame_ok \in BOOLEAN
    /\ image \in Images
    /\ ssim \in BOOLEAN
    /\ gray = None
    /\ face_cascade = None
    /\ depth_processor = None
    /\ depth_model = None
    /\ face = NoFace
    /\ all_keypoints = <<>>
    /\ face_keypoints = <<>>
    /\ face_dot_coords = <<>>
    /\ face_dot_intensities = <<>>
    /\ heatmap_norm = NoHeatmap
    /\ clamped = NoRoi
    /\ depth_shape = NoShape
    /\ win_size = NoWin
    /\ metric = None
    /\ similarity_score = DefaultScore
    /\ is_live = InitialIsLive
    /\ outcome = "running"
    /\ failure = None
    /\ module_globals = ModuleConfig
    /\ invocations = 0

\* the run ends: return is_live, an exception leaves the function, or exit()
Finish(how, why) ==
    /\ pc' = "done"
    /\ outcome' = how
    /\ failure' = why

\* img_display = frame.copy(); gray = cv2.cvtColor(frame, COLOR_BGR2GRAY)
Enter ==
    /\ pc = "entry"
    /\ IF frame_ok
       THEN /\ gray' = "original"
            /\ pc' = "load_cascade"
            /\ UNCHANGED <<outcome, failure>>
       ELSE /\ Finish("raised", "InputError")
            /\ UNCHANGED gray
    /\ UNCHANGED <<piVars, depthVars, globalVars>>
    /\ UNCHANGED <<frame_ok, image, ssim, face_cascade, depth_processor,
                   depth_model, face, all_keypoints, face_keypoints,
                   face_dot_coords, face_dot_intensities, heatmap_norm, clamped,
                   depth_shape, win_size, metric, similarity_score, is_live>>

\* face_cascade = cv2.CascadeClassifier(PATH); if face_cascade.empty(): exit()
LoadCascade ==
    /\ pc = "load_cascade"
    /\ \E loaded \in BOOLEAN :
          IF loaded
          THEN /\ face_cascade' = "loaded"
               /\ pc' = "load_depth_model"
               /\ UNCHANGED <<outcome, failure>>
          ELSE /\ face_cascade' = "empty"
               /\ Finish("exited", "CascadeLoadFailure")
    /\ UNCHANGED <<piVars, depthVars, globalVars>>
    /\ UNCHANGED <<frame_ok, image, ssim, gray, depth_processor, depth_model,
                   face, all_keypoints, face_keypoints, face_dot_coords,
                   face_dot_intensities, heatmap_norm, clamped, depth_shape,
                   win_size, metric, similarity_score, is_live>>

\* try: depth_processor = ...; depth_model = ...  except: depth_model = None
LoadDepthModel ==
    /\ pc = "load_depth_model"
    /\ \E r \in {"ok", "processor_failed", "model_failed"} :
          /\ depth_processor' = IF r = "processor_failed" THEN None ELSE "loaded"
          /\ depth_model' = IF r = "ok" THEN "loaded" ELSE None
    /\ pc' = "detect_faces"
    /\ UNCHANGED <<piVars, depthVars, globalVars>>
    /\ UNCHANGED <<frame_ok, image, ssim, gray, face_cascade, face,
                   all_keypoints, face_keypoints, face_dot_coords,
                   face_dot_intensities, heatmap_norm, clamped, depth_shape,
                   win_size, metric, similarity_score, is_live, outcome, failure>>

\* faces = detectMultiScale(gray, ...); if len(faces) == 0: return is_live
DetectFaces ==
    /\ pc = "detect_faces"
    /\ \E faces \in FaceLists :
          IF Len(faces) = 0
          THEN /\ Finish("returned", "NoFace")
               /\ UNCHANGED face
          ELSE /\ face' = LargestFace(faces)
               /\ pc' = "detect_blobs"
               /\ UNCHANGED <<outcome, failure>>
    /\ UNCHANGED <<piVars, depthVars, globalVars>>
    /\ UNCHANGED <<frame_ok, image, ssim, gray, face_cascade, depth_processor,
                   depth_model, all_keypoints, face_keypoints, face_dot_coords,
                   face_dot_intensities, heatmap_norm, clamped, depth_shape,
                   win_size, metric, similarity_score, is_live>>

\* gray = cv2.bitwise_not(gray); CLAHE, adaptive threshold, opening;
\* all_keypoints = detector.detect(opened)
DetectBlobs ==
    /\ pc = "detect_blobs"
    /\ gray' = "inverted"
    /\ \E S \in KeypointSets : all_keypoints' = KeypointList(S)
    /\ pc' = "filter_blobs"
    /\ UNCHANGED <<piVars, depthVars, globalVars>>
    /\ UNCHANGED <<frame_ok, image, ssim, face_cascade, depth_processor,
                   depth_model, face, face_keypoints, face_dot_coords,
                   face_dot_intensities, heatmap_norm, clamped, depth_shape,
                   win_size, metric, similarity_score, is_live, outcome, failure>>

\* for kp in all_keypoints: keep the ones inside the face box
FilterBlobs ==
    /\ pc = "filter_blobs"
    /\ LET kept == KeptIndices(all_keypoints, face, 1)
       IN  /\ face_keypoints' = [ i \in 1 .. Len(kept) |-> all_keypoints[kept[i]] ]
           /\ face_dot_coords' = [ i \in 1 .. Len(kept) |-> all_keypoints[kept[i]] ]
           /\ face_dot_intensities' =
                 [ i \in 1 .. Len(kept) |->
                     SampleIntensity(image, gray, all_keypoints[kept[i]][1],
                                     all_keypoints[kept[i]][2]) ]
    /\ pc' = "heatmap"
    /\ UNCHANGED <<piVars, depthVars, globalVars>>
    /\ UNCHANGED <<frame_ok, image, ssim, gray, face_cascade, depth_processor,
                   depth_model, face, all_keypoints, heatmap_norm, clamped,
                   depth_shape, win_size, metric, similarity_score, is_live,
                   outcome, failure>>

\* if len(face_dot_coords) > 5:
\*     try: heatmap_norm = griddata(points_xy, intensities / 255.0, grid).T
\*     except Exception: heatmap_norm = None
Interpolate ==
    /\ pc = "heatmap"
    /\ IF Len(face_dot_coords) > MinDots
       THEN IF GriddataRaises(face_dot_coords)
            THEN /\ heatmap_norm' = NoHeatmap
                 /\ failure' = "HeatmapFailure"
                 /\ pc' = "compare"
            ELSE /\ heatmap_norm' =
                      [ h |-> face.fh, w |-> face.fw,
                        cells |-> griddata(face_dot_coords,
                                     [ i \in 1 .. Len(face_dot_intensities) |->
                                         2 * face_dot_intensities[i] ],
                                     face) ]
                 /\ pc' = "fill_nan"
                 /\ UNCHANGED failure
       ELSE /\ heatmap_norm' = NoHeatmap
            /\ failure' = "NotEnoughDots"
            /\ pc' = "compare"
    /\ UNCHANGED <<piVars, depthVars, globalVars>>
    /\ UNCHANGED <<frame_ok, image, ssim, gray, face_cascade, depth_processor,
                   depth_model, face, all_keypoints, face_keypoints,
                   face_dot_coords, face_dot_intensities, clamped, depth_shape,
                   win_size, metric, similarity_score, is_live, outcome>>

\* if np.isnan(heatmap_norm).any(): replace the NaNs by the median
FillHeatmap ==
    /\ pc = "fill_nan"
    /\ heatmap_norm' = [ heatmap_norm EXCEPT !.cells = FillNaN(@) ]
    /\ pc' = "compare"
    /\ UNCHANGED <<piVars, depthVars, globalVars>>
    /\ UNCHANGED <<frame_ok, image, ssim, gray, face_cascade, depth_processor,
                   depth_model, face, all_keypoints, face_keypoints,
                   face_dot_coords, face_dot_intensities, clamped, depth_shape,
                   win_size, metric, similarity_score, is_live, outcome, failure>>

\* the handler of the comparison's try block
CompareError(why) ==
    /\ is_live' = CompareErrorVerdict.is_live
    /\ similarity_score' = CompareErrorVerdict.similarity_score
    /\ failure' = why
    /\ pc' = "return"

\* if heatmap_norm is not None and depth_model is not None and
\*    depth_processor is not None:  run the model over the frame
\* else: print("Skipping depth comparison due to previous errors.")
PredictDepth ==
    /\ pc = "compare"
    /\ IF heatmap_norm # NoHeatmap /\ depth_model # None /\ depth_processor # None
       THEN \E raised \in BOOLEAN :
               IF raised
               THEN /\ CompareError("DepthModelError")
                    /\ UNCHANGED depth_shape
               ELSE /\ depth_shape' = <<FrameH, FrameW>>
                    /\ pc' = "clamp_roi"
                    /\ UNCHANGED <<is_live, similarity_score, failure>>
       ELSE /\ pc' = "return"
            /\ failure' = IF failure = None THEN "DepthModelNotLoaded" ELSE failure
            /\ UNCHANGED <<depth_shape, is_live, similarity_score>>
    /\ UNCHANGED <<piVars, depthVars, globalVars>>
    /\ UNCHANGED <<frame_ok, image, ssim, gray, face_cascade, depth_processor,
                   depth_model, face, all_keypoints, face_keypoints,
                   face_dot_coords, face_dot_intensities, heatmap_norm, clamped,
                   win_size, metric, outcome>>

\* clamp the face box, crop the model's map to it and normalise the crop
ExtractRoi ==
    /\ pc = "clamp_roi"
    /\ LET c == ClampRoi(face, FrameW, FrameH)
       IN  /\ clamped' = c
           /\ IF DegenerateRoi(c)
              THEN /\ CompareError("InvalidRoi")
                   /\ UNCHANGED depth_shape
              ELSE /\ depth_shape' = SliceShape(c, FrameW, FrameH)
                   /\ pc' = "show_depth"
                   /\ UNCHANGED <<is_live, similarity_score, failure>>
    /\ UNCHANGED <<piVars, depthVars, globalVars>>
    /\ UNCHANGED <<frame_ok, image, ssim, gray, face_cascade, depth_processor,
                   depth_model, face, all_keypoints, face_keypoints,
                   face_dot_coords, face_dot_intensities, heatmap_norm,
                   win_size, metric, outcome>>

\* cv2.imshow("Model Depth Map (ROI)", ...); cv2.waitKey(0)
\* cv2.imshow("Model Depth Map (ROI - Clamped Vis)", ...); cv2.waitKey(0)
\* imshow raises where no display is available; waitKey(0) waits for a key
ShowDepth ==
    /\ pc \in {"show_depth", "show_clamped"}
    /\ \E raised \in BOOLEAN :
          IF raised
          THEN CompareError("DisplayError")
          ELSE /\ pc' = IF pc = "show_depth" THEN "wait_key_1" ELSE "wait_key_2"
               /\ UNCHANGED <<is_live, similarity_score, failure>>
    /\ UNCHANGED <<piVars, depthVars, globalVars>>
    /\ UNCHANGED <<frame_ok, image, ssim, gray, face_cascade, depth_processor,
                   depth_model, face, all_keypoints, face_keypoints,
                   face_dot_coords, face_dot_intensities, heatmap_norm, clamped,
                   depth_shape, win_size, metric, outcome>>

\* a key is pressed in the window: cv2.waitKey(0) returns
KeyPressed ==
    /\ pc \in {"wait_key_1", "wait_key_2"}
    /\ pc' = IF pc = "wait_key_1" THEN "show_clamped" ELSE "resize"
    /\ UNCHANGED <<piVars, depthVars, globalVars>>
    /\ UNCHANGED <<frame_ok, image, ssim, gray, face_cascade, depth_processor,
                   depth_model, face, all_keypoints, face_keypoints,
                   face_dot_coords, face_dot_intensities, heatmap_norm, clamped,
                   depth_shape, win_size, metric, similarity_score, is_live,
                   outcome, failure>>

\* target_h, target_w = heatmap_norm.shape
\* if depth_map_model_norm.shape != (target_h, target_w): cv2.resize(depth...)
\* cv2.resize(src, dsize): dsize is (width, height), the result has shape
\* (height, width)
cv2_resize(src_shape, dsize) == << dsize[2], dsize[1] >>

\* a resize that hands cv2.resize (target_h, target_w) as dsize
ResizedShapeSwapped(heat_shape, model_shape) ==
    IF model_shape # heat_shape
    THEN cv2_resize(model_shape, << heat_shape[1], heat_shape[2] >>)
    ELSE model_shape

ResizedShape(heat_shape, model_shape) ==
    IF model_shape # heat_shape
    THEN cv2_resize(model_shape, << heat_shape[2], heat_shape[1] >>)
    ELSE model_shape

Resize ==
    /\ pc = "resize"
    /\ depth_shape' = ResizedShape(<<heatmap_norm.h, heatmap_norm.w>>, depth_shape)
    /\ pc' = "score"
    /\ UNCHANGED <<piVars, depthVars, globalVars>>
    /\ UNCHANGED <<frame_ok, image, ssim, gray, face_cascade, depth_processor,
                   depth_model, face, all_keypoints, face_keypoints,
                   face_dot_coords, face_dot_intensities, heatmap_norm, clamped,
                   win_size, metric, similarity_score, is_live, outcome, failure>>

\* the metric that scores: SSIM when the import succeeded, MSE otherwise
MetricOf(ssim_available) == IF ssim_available THEN "SSIM" ELSE "MSE"

\* if ssim is not None: similarity_score, diff = ssim(..., win_size=win_size)
\* else: similarity_score = np.mean((heatmap - depth) ** 2)
Score ==
    /\ pc = "score"
    /\ IF ssim
       THEN LET win == WinSize(heatmap_norm.h, heatmap_norm.w)
            IN  /\ win_size' = win
                /\ IF SsimRaises(heatmap_norm.h, heatmap_norm.w, win)
                   THEN /\ CompareError("SsimError")
                        /\ UNCHANGED metric
                   ELSE /\ \E s \in SsimScores : similarity_score' = s
                        /\ metric' = MetricOf(ssim)
                        /\ pc' = "threshold"
                        /\ UNCHANGED <<is_live, failure>>
       ELSE /\ \E s \in MseScores : similarity_score' = s
            /\ metric' = MetricOf(ssim)
            /\ pc' = "threshold"
            /\ UNCHANGED <<win_size, is_live, failure>>
    /\ UNCHANGED <<piVars, depthVars, globalVars>>
    /\ UNCHANGED <<frame_ok, image, ssim, gray, face_cascade, depth_processor,
                   depth_model, face, all_keypoints, face_keypoints,
                   face_dot_coords, face_dot_intensities, heatmap_norm, clamped,
                   depth_shape, outcome>>

\* 6. Compare to Threshold; the MSE branch first assigns
\* MSE_THRESHOLD = 0.05
Threshold ==
    /\ pc = "threshold"
    /\ is_live' = Decide(MetricOf(ssim), similarity_score)
    /\ module_globals' =
          IF MetricOf(ssim) = "MSE"
          THEN AssignInFunction(module_globals, "MSE_THRESHOLD", MSE_THRESHOLD)
          ELSE module_globals
    /\ pc' = "return"
    /\ UNCHANGED <<piVars, depthVars, invocations>>
    /\ UNCHANGED <<frame_ok, image, ssim, gray, face_cascade, depth_processor,
                   depth_model, face, all_keypoints, face_keypoints,
                   face_dot_coords, face_dot_intensities, heatmap_norm, clamped,
                   depth_shape, win_size, metric, similarity_score, outcome,
                   failure>>

\* return is_live
Return ==
    /\ pc = "return"
    /\ pc' = "done"
    /\ outcome' = "returned"
    /\ UNCHANGED <<piVars, depthVars, globalVars>>
    /\ UNCHANGED <<frame_ok, image, ssim, gray, face_cascade, depth_processor,
                   depth_model, face, all_keypoints, face_keypoints,
                   face_dot_coords, face_dot_intensities, heatmap_norm, clamped,
                   depth_shape, win_size, metric, similarity_score, is_live,
                   failure>>

\* the next request: perform_liveness_check is called again in the same
\* process, with a new frame and fresh locals
Invoke ==
    /\ pc = "done"
    /\ outcome = "returned"
    /\ invocations < MaxCalls
    /\ invocations' = invocations + 1
    /\ pc' = "entry"
    /\ frame_ok' \in BOOLEAN
    /\ image' \in Images
    /\ gray' = None
    /\ face_cascade' = None
    /\ depth_processor' = None
    /\ depth_model' = None
    /\ face' = NoFace
    /\ all_keypoints' = <<>>
    /\ face_keypoints' = <<>>
    /\ face_dot_coords' = <<>>
    /\ face_dot_intensities' = <<>>
    /\ heatmap_norm' = NoHeatmap
    /\ clamped' = NoRoi
    /\ depth_shape' = NoShape
    /\ win_size' = NoWin
    /\ metric' = None
    /\ similarity_score' = DefaultScore
    /\ is_live' = InitialIsLive
    /\ outcome' = "running"
    /\ failure' = None
    /\ UNCHANGED <<ssim, module_globals, piVars, depthVars>>

LiveNext ==
    \/ Enter
    \/ LoadCascade
    \/ LoadDepthModel
    \/ DetectFaces
    \/ DetectBlobs
    \/ FilterBlobs
    \/ Interpolate
    \/ FillHeatmap
    \/ PredictDepth
    \/ ExtractRoi
    \/ ShowDepth
    \/ KeyPressed
    \/ Resize
    \/ Score
    \/ Threshold
    \/ Return

(***************************************************************************)
(* /recognize of recognition_server: recognize_face_from_pi                *)
(***************************************************************************)
Users == {"alice"}

\* what a POST to /recognize carries and what the detector, DeepFace.find and
\* the user table make of it
Requests ==
    [ has_file : BOOLEAN,            \* 'file' in request.files
      filename : {"", "ir.jpg"},
      decodable : BOOLEAN,           \* cv2.imdecode(...) is not None
      detection : {"face", "none", "error"},
      find : {"empty", "match", "raise"},
      distance : {34, 35},
      user_row : {"found", "missing", "raise"} ]

Response(code, status, name) ==
    [ code |-> code, status |-> status, name |-> name, liveness_failed |-> FALSE ]

recognize_face_from_pi(req) ==
    IF ~ req.has_file THEN Response(400, "error", None)
    ELSE IF req.filename = "" THEN Response(400, "error", None)
    ELSE IF ~ req.decodable THEN Response(400, "error", None)
    ELSE IF req.detection # "face"
         THEN Response(200, "success", "No Face Detected by Server")
    ELSE IF req.find = "raise" THEN Response(500, "error", None)
    ELSE IF req.find = "empty" \/ ~ (req.distance < DEEPFACE_RECOGNITION_THRESHOLD)
         THEN Response(200, "success", "Unknown")
    ELSE IF req.user_row = "raise"
         THEN Response(200, "success", "Known Face (Path Error)")
    ELSE IF req.user_row = "missing"
         THEN Response(200, "success", "Known Face (ID Error)")
    ELSE Response(200, "success", CHOOSE u \in Users : TRUE)

\* responses of the route
ServerResponses == { recognize_face_from_pi(req) : req \in Requests }

\* what requests.post(RECOGNIZE_URL, ...) may give the Pi: a response of the
\* route, a response that reports a failed liveness check, a success
\* without a name, or no response at all (code 0: timeout, connection error)
PiResponses ==
    ServerResponses
       \cup { [ code |-> 200, status |-> "liveness_failed", name |-> None,
                liveness_failed |-> TRUE ],
              Response(200, "success", None),
              Response(0, "error", None) }

(***************************************************************************)
(* cam_script.py                                                           *)
(***************************************************************************)

\* def check_3d_liveness(ir_frame): time.sleep(0.05); return True
check_3d_liveness(ir_frame) == TRUE

required_keys == {"ir_image", "rgb_image_1", "rgb_image_2", "rgb_image_3"}

\* names for which capture_and_send_sequence refuses the unlock:
\* recognized_name not in ["Unknown", "Error", ...]
DeniedNames == {"Unknown", "Error"}

\* recognized_name = result.get("name", "Error")
NameOf(result) == IF result.name = None THEN "Error" ELSE result.name

\* the decision of capture_and_send_sequence on a response:
\* raise_for_status() and json() raise on an error code or a missing response
Grants(result) ==
    /\ result.code = 200
    /\ result.status = "success"
    /\ NameOf(result) \notin DeniedNames

NewCapture ==
    [ pc |-> "projector", projector_relay |-> "unbound",
      captured_files_dict |-> {}, capture_success |-> TRUE,
      result |-> Response(0, "error", None), wake |-> 0,
      liveness |-> "not_run", posted |-> FALSE ]

\* the keys of KEYPAD_LAYOUT: a digit or letter, "*" and "#"
Keys == {"1", "*", "#"}

KeypadIdle == [ pc |-> "scan", wake |-> 0, payload |-> <<>> ]

StreamClientIdle == [ pc |-> "check", frame_to_encode |-> "None" ]

PiInit ==
    /\ now = 0
    /\ main_loop_running = TRUE
    /\ awaiting_server_response = FALSE
    /\ keypad_unlocked = FALSE
    /\ last_recognition_time = 0
    /\ face_detected_first_time = NoTime
    /\ LOCK_RELAY = "LOW"
    /\ captures = <<>>
    /\ entered_code = <<>>
    /\ keypad = KeypadIdle
    /\ main_pc = "top"
    /\ face_run = TRUE
    /\ streaming_active = FALSE
    /\ latest_frame_for_stream = "None"
    /\ stop_stream = "idle"
    /\ since_stop = FALSE
    /\ stream_client = StreamClientIdle

\* time passes, in seconds; one iteration of the main loop takes less
Tick ==
    /\ now < MaxTime
    /\ main_pc = "top"
    /\ now' = now + 1
    /\ UNCHANGED <<main_loop_running, awaiting_server_response, keypad_unlocked,
                   last_recognition_time, face_detected_first_time, LOCK_RELAY,
                   captures>>
    /\ UNCHANGED <<keypadVars, loopVars, streamVars, liveVars, depthVars>>

\* a main loop that never sees a capture in progress
VerifyingNever == FALSE

\* if awaiting_server_response: status_label = "Verifying..."
Verifying == awaiting_server_response

\* the iteration did not run the detection: a run of detections is broken
Interrupted == IF face_detected_first_time = NoTime THEN face_run ELSE FALSE

\* --- Main State Machine ---, up to the branch it takes: Verifying,
\* Unlocked (Keypad), Cooldown Active, or Ready to detect
StateMachine ==
    IF Verifying
    THEN /\ main_pc' = "top"
         /\ face_run' = Interrupted
         /\ UNCHANGED keypad_unlocked
    ELSE IF keypad_unlocked
    THEN /\ keypad_unlocked' = ~ (now > last_recognition_time)
         /\ main_pc' = "top"
         /\ face_run' = Interrupted
    ELSE IF now < last_recognition_time
    THEN /\ main_pc' = "top"
         /\ face_run' = Interrupted
         /\ UNCHANGED keypad_unlocked
    ELSE /\ main_pc' = "detect"
         /\ UNCHANGED <<keypad_unlocked, face_run>>

\* one iteration of the while loop of recognition_and_capture_loop, from
\* capture_array to the branch of the state machine; frame: capture_array
\* gave a frame. When streaming is active the frame is first stored for the
\* stream.
MainLoop ==
    /\ main_loop_running
    /\ main_pc = "top"
    /\ \E frame \in BOOLEAN :
          IF ~ frame
          THEN UNCHANGED <<keypad_unlocked, main_pc, face_run>>
          ELSE IF streaming_active
          THEN /\ main_pc' = "update_frame"
               /\ UNCHANGED <<keypad_unlocked, face_run>>
          ELSE StateMachine
    /\ UNCHANGED <<now, main_loop_running, awaiting_server_response,
                   last_recognition_time, face_detected_first_time, LOCK_RELAY,
                   captures>>
    /\ UNCHANGED <<keypadVars, streamVars, liveVars, depthVars>>

\* if stream_now: with latest_frame_lock: latest_frame_for_stream = frame_rgb
MainUpdateFrame ==
    /\ main_pc = "update_frame"
    /\ latest_frame_for_stream' = "frame"
    /\ StateMachine
    /\ UNCHANGED <<now, main_loop_running, awaiting_server_response,
                   last_recognition_time, face_detected_first_time, LOCK_RELAY,
                   captures>>
    /\ UNCHANGED <<streaming_active, stop_stream, since_stop, stream_client>>
    /\ UNCHANGED <<keypadVars, liveVars, depthVars>>

\* else: # Ready to detect: detectMultiScale has returned; found: it found a
\* face. The delay is over: awaiting_server_response = True and the capture
\* thread is started.
MainDetect ==
    /\ main_pc = "detect"
    /\ main_pc' = "top"
    /\ \E found \in BOOLEAN :
          IF ~ found
          THEN /\ face_detected_first_time' = NoTime
               /\ face_run' = TRUE
               /\ UNCHANGED <<awaiting_server_response, captures>>
          ELSE IF face_detected_first_time = NoTime
          THEN /\ face_detected_first_time' = now
               /\ face_run' = TRUE
               /\ UNCHANGED <<awaiting_server_response, captures>>
          ELSE IF now >= face_detected_first_time + FACE_DETECT_DELAY
          THEN /\ awaiting_server_response' = TRUE
               /\ face_detected_first_time' = NoTime
               /\ face_run' = TRUE
               /\ captures' = Append(captures, NewCapture)
          ELSE UNCHANGED <<awaiting_server_response, face_detected_first_time,
                           face_run, captures>>
    /\ UNCHANGED <<now, main_loop_running, keypad_unlocked,
                   last_recognition_time, LOCK_RELAY>>
    /\ UNCHANGED <<keypadVars, streamVars, liveVars, depthVars>>

\* key = cv2.waitKey(1) & 0xFF; if key == ord('q'): main_loop_running = False
Quit ==
    /\ main_loop_running
    /\ main_pc = "top"
    /\ main_loop_running' = FALSE
    /\ UNCHANGED <<now, awaiting_server_response, keypad_unlocked,
                   last_recognition_time, face_detected_first_time, LOCK_RELAY,
                   captures>>
    /\ UNCHANGED <<keypadVars, loopVars, streamVars, liveVars, depthVars>>

\* the except clause of the capture: capture_success = False;
\* if projector_relay.is_active: projector_relay.off()
\* projector_relay is unbound when OutputDevice(...) raised and closed after
\* projector_relay.close(): reading is_active then raises out of the thread
CaptureFailed(t) ==
    IF t.projector_relay \in {"unbound", "closed"}
    THEN [t EXCEPT !.pc = "crashed", !.capture_success = FALSE]
    ELSE [t EXCEPT !.pc = "send", !.capture_success = FALSE,
                   !.projector_relay = "off"]

\* 1. projector_relay = OutputDevice(RELAY_PIN, ...); on(); capture the IR
\*    frame; off(); close(); encode it
CaptureIr(i) ==
    /\ i \in 1 .. Len(captures)
    /\ captures[i].pc = "projector"
    /\ \E r \in {"ok", "device_error", "capture_raised", "no_frame", "encode_failed"} :
          captures' = [captures EXCEPT ![i] =
             IF r = "device_error" THEN CaptureFailed(@)
             ELSE IF r = "capture_raised"
                  THEN CaptureFailed([@ EXCEPT !.projector_relay = "on"])
             ELSE IF r \in {"no_frame", "encode_failed"}
                  THEN CaptureFailed([@ EXCEPT !.projector_relay = "closed"])
             ELSE [@ EXCEPT !.projector_relay = "closed", !.pc = "rgb",
                            !.captured_files_dict = @ \cup {"ir_image"}] ]
    /\ UNCHANGED <<now, main_loop_running, awaiting_server_response,
                   keypad_unlocked, last_recognition_time,
                   face_detected_first_time, LOCK_RELAY>>
    /\ UNCHANGED <<keypadVars, loopVars, streamVars, liveVars, depthVars>>

\* 2.-4. encode the first RGB frame, capture and encode the second and third
NextRgbKey(files) ==
    IF "rgb_image_1" \notin files THEN "rgb_image_1"
    ELSE IF "rgb_image_2" \notin files THEN "rgb_image_2"
    ELSE "rgb_image_3"

CaptureRgb(i) ==
    /\ i \in 1 .. Len(captures)
    /\ captures[i].pc = "rgb"
    /\ \E ok \in BOOLEAN :
          captures' = [captures EXCEPT ![i] =
             IF ~ ok THEN CaptureFailed(@)
             ELSE LET key == NextRgbKey(@.captured_files_dict)
                  IN  [@ EXCEPT !.captured_files_dict = @ \cup {key},
                                !.pc = IF key = "rgb_image_3" THEN "send" ELSE "rgb"] ]
    /\ UNCHANGED <<now, main_loop_running, awaiting_server_response,
                   keypad_unlocked, last_recognition_time,
                   face_detected_first_time, LOCK_RELAY>>
    /\ UNCHANGED <<keypadVars, loopVars, streamVars, liveVars, depthVars>>

\* a capture thread that posts whatever it has
ShouldSendAlways(t) == TRUE

\* if capture_success and all(key in captured_files_dict for key in required_keys)
ShouldSend(t) ==
    /\ t.capture_success
    /\ required_keys \subseteq t.captured_files_dict

\* if capture_success and all(key in captured_files_dict ...):
\*     response = requests.post(RECOGNIZE_URL, files=..., timeout=30)
\*     ... if granted: last_recognition_time = time.time() + 30;
\*                     GPIO.output(LOCK_RELAY, GPIO.HIGH); time.sleep(5)
SendAndDecide(i) ==
    /\ i \in 1 .. Len(captures)
    /\ captures[i].pc = "send"
    /\ IF ShouldSend(captures[i])
       THEN \E result \in PiResponses :
               IF Grants(result)
               THEN /\ last_recognition_time' = now + COOLDOWN_SECONDS_ON_UNLOCK
                    /\ LOCK_RELAY' = "HIGH"
                    /\ captures' = [captures EXCEPT ![i] =
                          [@ EXCEPT !.pc = "unlocked", !.result = result,
                                    !.wake = now + UnlockHold,
                                    !.posted = TRUE]]
               ELSE /\ captures' = [captures EXCEPT ![i] =
                          [@ EXCEPT !.pc = "finish", !.posted = TRUE]]
                    /\ UNCHANGED <<last_recognition_time, LOCK_RELAY>>
       ELSE /\ captures' = [captures EXCEPT ![i] = [@ EXCEPT !.pc = "finish"]]
            /\ UNCHANGED <<last_recognition_time, LOCK_RELAY>>
    /\ UNCHANGED <<now, main_loop_running, awaiting_server_response,
                   keypad_unlocked, face_detected_first_time>>
    /\ UNCHANGED <<keypadVars, loopVars, streamVars, liveVars, depthVars>>

\* time.sleep(5) is over: GPIO.output(LOCK_RELAY, GPIO.LOW); the response
\* is not read again
Relock(i) ==
    /\ i \in 1 .. Len(captures)
    /\ captures[i].pc = "unlocked"
    /\ now >= captures[i].wake
    /\ LOCK_RELAY' = "LOW"
    /\ captures' = [captures EXCEPT ![i] =
          [@ EXCEPT !.pc = "finish", !.result = NewCapture.result]]
    /\ UNCHANGED <<now, main_loop_running, awaiting_server_response,
                   keypad_unlocked, last_recognition_time,
                   face_detected_first_time>>
    /\ UNCHANGED <<keypadVars, loopVars, streamVars, liveVars, depthVars>>

\* print("CAPTURE SEQ: Sequence finished."); awaiting_server_response = False
FinishCapture(i) ==
    /\ i \in 1 .. Len(captures)
    /\ captures[i].pc = "finish"
    /\ awaiting_server_response' = FALSE
    /\ captures' = [ j \in 1 .. (Len(captures) - 1) |->
                       IF j < i THEN captures[j] ELSE captures[j + 1] ]
    /\ UNCHANGED <<now, main_loop_running, keypad_unlocked,
                   last_recognition_time, face_detected_first_time, LOCK_RELAY>>
    /\ UNCHANGED <<keypadVars, loopVars, streamVars, liveVars, depthVars>>

\* a keypad that takes any number of keys
AppendKeyUnbounded(code, key) == Append(code, key)

\* if len(entered_code) < 6: entered_code += key
AppendKey(code, key) ==
    IF Len(code) < MaxCodeLen THEN Append(code, key) ELSE code

\* keypad_monitor_thread_func: a key was pressed and released. While
\* keypad_unlocked the key is dropped; "#" sends the entered code, if there
\* is one, to VERIFY_KEYPAD_URL; "*" clears the code; any other key is
\* appended up to 6 characters.
KeypadKey ==
    /\ keypad.pc = "scan"
    /\ \E key \in Keys :
          IF keypad_unlocked \/ (key = "#" /\ entered_code = <<>>)
          THEN UNCHANGED <<entered_code, keypad>>
          ELSE IF key = "#"
          THEN /\ entered_code' = <<>>
               /\ keypad' = [ keypad EXCEPT !.pc = "verify",
                                            !.payload = entered_code ]
          ELSE /\ entered_code' =
                     IF key = "*" THEN <<>> ELSE AppendKey(entered_code, key)
               /\ UNCHANGED keypad
    /\ UNCHANGED <<now, main_loop_running, awaiting_server_response,
                   keypad_unlocked, last_recognition_time,
                   face_detected_first_time, LOCK_RELAY, captures>>
    /\ UNCHANGED <<loopVars, streamVars, liveVars, depthVars>>

\* response = requests.post(VERIFY_KEYPAD_URL, json=payload, timeout=5):
\* the server grants (200, "success"), denies (403), fails, or the request
\* raises; on a grant keypad_unlocked = True
KeypadResponse ==
    /\ keypad.pc = "verify"
    /\ \E response \in {"granted", "denied", "server_error", "request_error"} :
          IF response = "granted"
          THEN /\ keypad_unlocked' = TRUE
               /\ keypad' = [ keypad EXCEPT !.pc = "granted", !.payload = <<>> ]
          ELSE /\ keypad' = KeypadIdle
               /\ UNCHANGED keypad_unlocked
    /\ UNCHANGED <<now, main_loop_running, awaiting_server_response,
                   last_recognition_time, face_detected_first_time, LOCK_RELAY,
                   captures, entered_code>>
    /\ UNCHANGED <<loopVars, streamVars, liveVars, depthVars>>

\* last_recognition_time = time.time() + COOLDOWN_SECONDS_ON_UNLOCK;
\* GPIO.output(LOCK_RELAY, GPIO.HIGH); time.sleep(5)
KeypadGrant ==
    /\ keypad.pc = "granted"
    /\ last_recognition_time' = now + COOLDOWN_SECONDS_ON_UNLOCK
    /\ LOCK_RELAY' = "HIGH"
    /\ keypad' = [ keypad EXCEPT !.pc = "unlocked", !.wake = now + UnlockHold ]
    /\ UNCHANGED <<now, main_loop_running, awaiting_server_response,
                   keypad_unlocked, face_detected_first_time, captures,
                   entered_code>>
    /\ UNCHANGED <<loopVars, streamVars, liveVars, depthVars>>

\* time.sleep(5) of the keypad thread is over: GPIO.output(LOCK_RELAY, GPIO.LOW)
KeypadRelock ==
    /\ keypad.pc = "unlocked"
    /\ now >= keypad.wake
    /\ LOCK_RELAY' = "LOW"
    /\ keypad' = KeypadIdle
    /\ UNCHANGED <<now, main_loop_running, awaiting_server_response,
                   keypad_unlocked, last_recognition_time,
                   face_detected_first_time, captures, entered_code>>
    /\ UNCHANGED <<loopVars, streamVars, liveVars, depthVars>>

\* handle_start_stream: with streaming_lock: streaming_active = True
StartStream ==
    /\ streaming_active' = TRUE
    /\ since_stop' = FALSE
    /\ UNCHANGED <<latest_frame_for_stream, stop_stream, stream_client>>
    /\ UNCHANGED <<now, main_loop_running, awaiting_server_response,
                   keypad_unlocked, last_recognition_time,
                   face_detected_first_time, LOCK_RELAY, captures>>
    /\ UNCHANGED <<keypadVars, loopVars, liveVars, depthVars>>

\* handle_stop_stream: with streaming_lock: streaming_active = False
StopStream ==
    /\ stop_stream = "idle"
    /\ streaming_active' = FALSE
    /\ stop_stream' = "clear"
    /\ UNCHANGED <<latest_frame_for_stream, since_stop, stream_client>>
    /\ UNCHANGED <<now, main_loop_running, awaiting_server_response,
                   keypad_unlocked, last_recognition_time,
                   face_detected_first_time, LOCK_RELAY, captures>>
    /\ UNCHANGED <<keypadVars, loopVars, liveVars, depthVars>>

\* handle_stop_stream: with latest_frame_lock: latest_frame_for_stream = None;
\* return jsonify(...)
StopStreamClear ==
    /\ stop_stream = "clear"
    /\ latest_frame_for_stream' = "None"
    /\ stop_stream' = "idle"
    /\ since_stop' = TRUE
    /\ UNCHANGED <<streaming_active, stream_client>>
    /\ UNCHANGED <<now, main_loop_running, awaiting_server_response,
                   keypad_unlocked, last_recognition_time,
                   face_detected_first_time, LOCK_RELAY, captures>>
    /\ UNCHANGED <<keypadVars, loopVars, liveVars, depthVars>>

\* generate_stream_frames: while main_loop_running:
\*     with streaming_lock: stream_now = streaming_active
GenerateCheck ==
    /\ main_loop_running
    /\ stream_client.pc = "check"
    /\ stream_client' =
          [ pc |-> IF streaming_active THEN "copy" ELSE "check",
            frame_to_encode |-> "None" ]
    /\ UNCHANGED <<streaming_active, latest_frame_for_stream, stop_stream,
                   since_stop>>
    /\ UNCHANGED <<now, main_loop_running, awaiting_server_response,
                   keypad_unlocked, last_recognition_time,
                   face_detected_first_time, LOCK_RELAY, captures>>
    /\ UNCHANGED <<keypadVars, loopVars, liveVars, depthVars>>

\* with latest_frame_lock: if latest_frame_for_stream is not None:
\*     frame_to_encode = latest_frame_for_stream.copy(); it is then encoded
\* and yielded to the client
GenerateCopy ==
    /\ stream_client.pc = "copy"
    /\ stream_client' =
          [ pc |-> "check", frame_to_encode |-> latest_frame_for_stream ]
    /\ UNCHANGED <<streaming_active, latest_frame_for_stream, stop_stream,
                   since_stop>>
    /\ UNCHANGED <<now, main_loop_running, awaiting_server_response,
                   keypad_unlocked, last_recognition_time,
                   face_detected_first_time, LOCK_RELAY, captures>>
    /\ UNCHANGED <<keypadVars, loopVars, liveVars, depthVars>>

\* the main loop, the stream handlers and one stream client
StreamNext ==
    \/ MainLoop
    \/ MainUpdateFrame
    \/ MainDetect
    \/ Quit
    \/ StartStream
    \/ StopStream
    \/ StopStreamClear
    \/ GenerateCheck
    \/ GenerateCopy

\* the threads of the Pi while the main loop runs and no client uses the
\* stream
PiNext ==
    \/ Tick
    \/ MainLoop
    \/ MainDetect
    \/ \E i \in 1 .. Len(captures) : CaptureIr(i)
    \/ \E i \in 1 .. Len(captures) : CaptureRgb(i)
    \/ \E i \in 1 .. Len(captures) : SendAndDecide(i)
    \/ \E i \in 1 .. Len(captures) : Relock(i)
    \/ \E i \in 1 .. Len(captures) : FinishCapture(i)
    \/ KeypadKey
    \/ KeypadResponse
    \/ KeypadGrant
    \/ KeypadRelock

(***************************************************************************)
(* Images and the OpenCV calls of pseudo_depth_generator.py and            *)
(* vignette_utils.py. An image is [h, w, px]: px maps a pixel <<x, y>> to  *)
(* its value (for a colour image, the value of its blue channel).          *)
(***************************************************************************)
Pixels(h, w) == (0 .. (w - 1)) \X (0 .. (h - 1))

NoImage == [ h |-> 0, w |-> 0, px |-> <<>> ]

\* face_roi.size == 0
IsEmpty(img) == img.h = 0 \/ img.w = 0

\* the crops handed to the pipeline: nothing, a flat patch, a ramp
FaceRois ==
    { NoImage,
      [ h |-> RoiSide, w |-> RoiSide, px |-> [ p \in Pixels(RoiSide, RoiSide) |-> 100 ] ],
      [ h |-> RoiSide, w |-> RoiSide,
        px |-> [ p \in Pixels(RoiSide, RoiSide) |-> 10 + 40 * p[1] + 20 * p[2] ] ] }

\* kernel dimensions a caller may configure
KernelDims == (-1) .. MaxKernel
KernelSizes == KernelDims \X KernelDims

\* a kernel dimension passed through unchanged
KeepKernel(k) == k

\* k if k % 2 != 0 else k + 1
OddKernel(k) == IF k % 2 # 0 THEN k ELSE k + 1

\* cv2.GaussianBlur derives a non-positive dimension from a positive sigma
\* and rejects every other dimension that is not positive and odd
EffectiveKernel(k, sigma) == IF k <= 0 /\ sigma > 0 THEN 3 ELSE k

GaussianBlurRaises(k_w, k_h, sigma) ==
    \E k \in { EffectiveKernel(k_w, sigma), EffectiveKernel(k_h, sigma) } :
       k <= 0 \/ k % 2 = 0

\* BORDER_REFLECT_101
Reflect(i, n) == IF n = 1 THEN 0 ELSE IF i < 0 THEN -i ELSE IF i >= n THEN 2 * n - 2 - i ELSE i

\* one pass of the smoothing kernel (1, 2, 1) along x or along y; a kernel of
\* one pixel leaves the image as it is
BlurX(img, scale) ==
    [ img EXCEPT !.px = [ p \in Pixels(img.h, img.w) |->
         (img.px[<<Reflect(p[1] - 1, img.w), p[2]>>] + 2 * img.px[p]
            + img.px[<<Reflect(p[1] + 1, img.w), p[2]>>]) \div scale ] ]

BlurY(img, scale) ==
    [ img EXCEPT !.px = [ p \in Pixels(img.h, img.w) |->
         (img.px[<<p[1], Reflect(p[2] - 1, img.h)>>] + 2 * img.px[p]
            + img.px[<<p[1], Reflect(p[2] + 1, img.h)>>]) \div scale ] ]

GaussianBlur(img, k_w, k_h, sigma) ==
    LET a == IF EffectiveKernel(k_w, sigma) >= 3 THEN BlurX(img, 4) ELSE img
    IN  IF EffectiveKernel(k_h, sigma) >= 3 THEN BlurY(a, 4) ELSE a

\* cv2.normalize(src, None, 0, 255, cv2.NORM_MINMAX)
normalize(img) ==
    LET vals == { img.px[p] : p \in Pixels(img.h, img.w) }
        lo == CHOOSE v \in vals : \A u \in vals : v <= u
        hi == CHOOSE v \in vals : \A u \in vals : v >= u
    IN  [ img EXCEPT !.px = [ p \in Pixels(img.h, img.w) |->
            IF hi = lo THEN 0 ELSE ((img.px[p] - lo) * 255) \div (hi - lo) ] ]

\* axis = max(1, int((side / 2) * scale)), scale in hundredths
EllipseAxis(side, scale) == Max2(1, (side * scale) \div 200)

\* cv2.ellipse(mask, (w // 2, h // 2), (axis_x, axis_y), 0, 0, 360, value,
\* thickness=-1) on a mask of zeros: the pixels of the filled ellipse
ellipse(h, w, axis_x, axis_y, value) ==
    [ h |-> h, w |-> w,
      px |-> [ p \in Pixels(h, w) |->
         IF (p[1] - w \div 2) * (p[1] - w \div 2) * axis_y * axis_y
              + (p[2] - h \div 2) * (p[2] - h \div 2) * axis_x * axis_x
            <= axis_x * axis_x * axis_y * axis_y
         THEN value ELSE 0 ] ]

\* mask.fill(value)
FullMask(h, w, value) == [ h |-> h, w |-> w, px |-> [ p \in Pixels(h, w) |-> value ] ]

\* cv2.bitwise_and(img, img, mask=mask) and cv2.bitwise_and(img, mask_3ch)
\* with a mask of 0 and 255: the pixel where the mask is set, 0 elsewhere
bitwise_and(img, mask) ==
    [ img EXCEPT !.px = [ p \in Pixels(img.h, img.w) |->
         IF mask.px[p] # 0 THEN img.px[p] ELSE 0 ] ]

\* cv2.resize(src, (w, h), ...): the sampling grid of the resize (each target
\* pixel reads the source pixel it falls on)
resize(img, dsize) ==
    [ h |-> dsize[2], w |-> dsize[1],
      px |-> [ p \in Pixels(dsize[2], dsize[1]) |->
                 img.px[<<(p[1] * img.w) \div dsize[1], (p[2] * img.h) \div dsize[2]>>] ] ]

\* cv2.resize rejects an empty target size
ResizeRaises(dsize) == dsize[1] <= 0 \/ dsize[2] <= 0

\* the blue channel of cv2.COLORMAP_JET
applyColorMap(v) ==
    IF v < 32 THEN 128 + 4 * v
    ELSE IF v < 96 THEN 255
    ELSE IF v < 160 THEN 255 - 4 * (v - 96)
    ELSE 0

\* cv2.convertScaleAbs(src, alpha=alpha, beta=beta), alpha in hundredths
convertScaleAbs(v, alpha, beta) ==
    LET r == (v * alpha) \div 100 + beta
        a == IF r < 0 THEN -r ELSE r
    IN  Min2(255, a)

(***************************************************************************)
(* _create_single_pseudo_depth_map. An argument is drawn when the function *)
(* first reads it and kept in pd; img is the image the stages hand on      *)
(* (blurred_roi, data_for_plotting, display_data, final_image_...), mask   *)
(* is mask and then display_mask_resized.                                  *)
(***************************************************************************)
\* callers' kernel sizes
BlurKernels == { <<k, k>> : k \in KernelDims } \cup { <<1, k>> : k \in KernelDims }

\* target_display_size, (width, height)
DisplaySizes == { <<RoiSide, RoiSide>>, <<2 * RoiSide, RoiSide>>, <<0, 0>> }

\* (brightness_alpha in hundredths, brightness_beta)
Brightness == { <<100, 15>>, <<100, 0>>, <<120, 0>> }

PdIdle ==
    [ pc |-> "idle", face_roi |-> NoImage, img |-> NoImage, mask |-> NoImage,
      is_color |-> FALSE, apply_colormap |-> FALSE,
      blur_calls |-> <<>>, configured |-> <<>>, stages |-> <<>>, failed |-> {},
      returned |-> "running" ]

PdStart(roi) == [ PdIdle EXCEPT !.pc = "enter", !.face_roi = roi ]

PdStep(d) ==
    /\ pd' = d
    /\ UNCHANGED <<call, vg, liveVars, piVars>>

\* if face_roi is None or face_roi.size == 0: return None
PdEnter ==
    /\ pd.pc = "enter"
    /\ IF IsEmpty(pd.face_roi)
       THEN PdStep([ pd EXCEPT !.pc = "done", !.returned = "None" ])
       ELSE PdStep([ pd EXCEPT !.pc = "blur", !.img = pd.face_roi ])

\* 1. Blur: the kernel is forced odd; on cv2.error the original ROI is used
PdBlur ==
    /\ pd.pc = "blur"
    /\ \E blur_kernel_size \in BlurKernels, blur_sigma \in {0, 25}, raised \in BOOLEAN :
          LET k_w == OddKernel(blur_kernel_size[1])
              k_h == OddKernel(blur_kernel_size[2])
              d == [ pd EXCEPT !.pc = "normalize",
                               !.configured = Append(@, blur_kernel_size),
                               !.blur_calls = Append(@, <<k_w, k_h>>) ]
          IN  IF raised \/ GaussianBlurRaises(k_w, k_h, blur_sigma)
              THEN PdStep([ d EXCEPT !.failed = @ \cup {"blur"} ])
              ELSE PdStep([ d EXCEPT !.img = GaussianBlur(pd.img, k_w, k_h, blur_sigma),
                                     !.stages = Append(@, "blur") ])

\* 2. Normalize
PdNormalize ==
    /\ pd.pc = "normalize"
    /\ PdStep([ pd EXCEPT !.pc = "mask", !.img = normalize(pd.img),
                          !.stages = Append(@, "normalize") ])

\* 3. Mask, 4. Apply Mask: a filled ellipse, the whole rectangle when
\* cv2.ellipse raises
PdMask ==
    /\ pd.pc = "mask"
    /\ \E raised \in BOOLEAN :
          LET h == pd.img.h
              w == pd.img.w
              mask == IF raised THEN FullMask(h, w, 255)
                      ELSE ellipse(h, w, EllipseAxis(w, 85), EllipseAxis(h, 95), 255)
          IN  PdStep([ pd EXCEPT !.pc = "resize", !.mask = mask,
                                 !.img = bitwise_and(pd.img, mask),
                                 !.stages = Append(@, "mask"),
                                 !.failed = IF raised THEN @ \cup {"ellipse"} ELSE @ ])

\* 5. Resize: on cv2.error, return None
PdResize ==
    /\ pd.pc = "resize"
    /\ \E target_display_size \in DisplaySizes, raised \in BOOLEAN :
          IF raised \/ ResizeRaises(target_display_size)
          THEN PdStep([ pd EXCEPT !.pc = "done", !.returned = "None",
                                  !.failed = @ \cup {"resize"} ])
          ELSE PdStep([ pd EXCEPT !.pc = "colormap",
                                  !.img = resize(pd.img, target_display_size),
                                  !.mask = resize(pd.mask, target_display_size),
                                  !.stages = Append(@, "resize") ])

\* 6. Apply Colormap (with its mask); on cv2.error the image stays grayscale
PdColormap ==
    /\ pd.pc = "colormap"
    /\ \E apply_colormap \in BOOLEAN, invert_colormap \in BOOLEAN, raised \in BOOLEAN :
          LET d == [ pd EXCEPT !.pc = "brightness", !.apply_colormap = apply_colormap ]
              data_to_colorize ==
                 [ pd.img EXCEPT !.px = [ p \in Pixels(pd.img.h, pd.img.w) |->
                      IF invert_colormap THEN 255 - pd.img.px[p] ELSE pd.img.px[p] ] ]
              display_data_color ==
                 [ pd.img EXCEPT !.px = [ p \in Pixels(pd.img.h, pd.img.w) |->
                      applyColorMap(data_to_colorize.px[p]) ] ]
          IN  IF ~ apply_colormap THEN PdStep(d)
              ELSE IF raised THEN PdStep([ d EXCEPT !.failed = @ \cup {"colormap"} ])
              ELSE PdStep([ d EXCEPT !.img = bitwise_and(display_data_color, pd.mask),
                                     !.is_color = TRUE,
                                     !.stages = Append(@, "colorize") ])

\* 7. Apply Brightness/Contrast Adjustment (with its mask); reverted on error
PdBrightness ==
    /\ pd.pc = "brightness"
    /\ \E b \in Brightness, raised \in BOOLEAN :
          LET d == [ pd EXCEPT !.pc = "final_blur" ]
              adjusted ==
                 [ pd.img EXCEPT !.px = [ p \in Pixels(pd.img.h, pd.img.w) |->
                      convertScaleAbs(pd.img.px[p], b[1], b[2]) ] ]
          IN  IF ~ (pd.is_color /\ (b[1] # 100 \/ b[2] # 0)) THEN PdStep(d)
              ELSE IF raised THEN PdStep([ d EXCEPT !.failed = @ \cup {"brightness"} ])
              ELSE PdStep([ d EXCEPT !.img = bitwise_and(adjusted, pd.mask),
                                     !.stages = Append(@, "brightness") ])

\* 8. Apply Final Blur, then the mask again: only for a colour image and a
\* positive kernel; on cv2.error the image before the blur is kept
PdFinalBlur ==
    /\ pd.pc = "final_blur"
    /\ \E final_blur_kernel_size \in BlurKernels, raised \in BOOLEAN :
          LET k_w_final == OddKernel(final_blur_kernel_size[1])
              k_h_final == OddKernel(final_blur_kernel_size[2])
              d == [ pd EXCEPT !.pc = "return" ]
              c == [ d EXCEPT !.configured = Append(@, final_blur_kernel_size),
                              !.blur_calls = Append(@, <<k_w_final, k_h_final>>) ]
          IN  IF ~ pd.is_color THEN PdStep(d)
              ELSE IF ~ (k_w_final > 0 /\ k_h_final > 0) THEN PdStep(d)
              ELSE IF raised \/ GaussianBlurRaises(k_w_final, k_h_final, 0)
              THEN PdStep([ c EXCEPT !.failed = @ \cup {"final_blur"} ])
              ELSE PdStep([ c EXCEPT
                      !.img = bitwise_and(GaussianBlur(pd.img, k_w_final, k_h_final, 0),
                                          pd.mask),
                      !.stages = @ \o <<"final_blur", "remask">> ])

\* return final_display_image
PdReturn ==
    /\ pd.pc = "return"
    /\ PdStep([ pd EXCEPT !.pc = "done", !.returned = "image" ])

PdNext ==
    \/ PdEnter
    \/ PdBlur
    \/ PdNormalize
    \/ PdMask
    \/ PdResize
    \/ PdColormap
    \/ PdBrightness
    \/ PdFinalBlur
    \/ PdReturn

(***************************************************************************)
(* apply_elliptical_vignette. The float mask is kept in sixteenths (16 is  *)
(* 1.0), so that two passes of the smoothing kernel are exact;             *)
(* feather_sigma is in tenths.                                             *)
(***************************************************************************)
MaskOne == 16

Scales == {85, 200}
FeatherSigmas == {0, 1, 5, 300}

\* ksize = int(6 * feather_sigma) + 1
FeatherKsize(feather_sigma) == (6 * feather_sigma) \div 10 + 1

\* cv2.GaussianBlur(mask, (ksize, ksize), feather_sigma) on the float mask
FeatherBlur(mask, ksize) ==
    IF ksize >= 3 THEN BlurY(BlurX(mask, 1), 1) ELSE [ mask EXCEPT !.px =
          [ p \in Pixels(mask.h, mask.w) |-> MaskOne * mask.px[p] ] ]

\* np.clip(image.astype(np.float32) * mask, 0, 255).astype(image.dtype) with
\* a mask that FeatherBlur left in units of 1 / (16 * MaskOne)
Multiply(src, mask, unit) ==
    [ src EXCEPT !.px = [ p \in Pixels(src.h, src.w) |->
         Max2(0, Min2(255, (src.px[p] * mask.px[p]) \div unit)) ] ]

VgIdle ==
    [ pc |-> "idle", image |-> NoImage, scale_x |-> 0, scale_y |-> 0,
      feather_sigma |-> 0, mask |-> NoImage, unit |-> MaskOne,
      blur_calls |-> <<>>, configured |-> <<>>,
      result |-> NoImage, twice |-> NoImage, returned |-> "running" ]

VgStart(src, scale_x, scale_y, feather_sigma) ==
    [ VgIdle EXCEPT !.pc = "enter", !.image = src, !.scale_x = scale_x,
                    !.scale_y = scale_y, !.feather_sigma = feather_sigma ]

VgStep(v) ==
    /\ vg' = v
    /\ UNCHANGED <<call, pd, liveVars, piVars>>

\* if image is None: return None (NoImage stands for None)
VgEnter ==
    /\ vg.pc = "enter"
    /\ IF vg.image = NoImage
       THEN VgStep([ vg EXCEPT !.pc = "done", !.returned = "None" ])
       ELSE VgStep([ vg EXCEPT !.pc = "mask" ])

\* 1. Create a float mask: a filled ellipse of 1.0, all 1.0 when
\* cv2.ellipse raises
VgMask ==
    /\ vg.pc = "mask"
    /\ \E raised \in BOOLEAN :
          LET h == vg.image.h
              w == vg.image.w
          IN  VgStep([ vg EXCEPT !.pc = "feather",
                 !.mask = IF raised THEN FullMask(h, w, MaskOne)
                          ELSE ellipse(h, w, EllipseAxis(w, vg.scale_x),
                                       EllipseAxis(h, vg.scale_y), MaskOne) ])

\* 2. Apply feathering by blurring the mask, with an odd kernel
VgFeather ==
    /\ vg.pc = "feather"
    /\ IF vg.feather_sigma > 0
       THEN LET k == FeatherKsize(vg.feather_sigma)
                ksize == OddKernel(k)
            IN  VgStep([ vg EXCEPT !.pc = "apply",
                                   !.mask = FeatherBlur(vg.mask, ksize),
                                   !.unit = MaskOne * MaskOne,
                                   !.configured = Append(@, <<k, k>>),
                                   !.blur_calls = Append(@, <<ksize, ksize>>) ])
       ELSE VgStep([ vg EXCEPT !.pc = "apply" ])

\* 3. Apply the mask by element-wise multiplication, 4. convert back
VgApply ==
    /\ vg.pc = "apply"
    /\ VgStep([ vg EXCEPT !.pc = "again",
                          !.result = Multiply(vg.image, vg.mask, vg.unit),
                          !.returned = "image" ])

\* the caller applies the vignette to the result once more, with the same
\* scale and feather arguments (and so the same mask)
VgApplyAgain ==
    /\ vg.pc = "again"
    /\ VgStep([ vg EXCEPT !.pc = "done",
                          !.twice = Multiply(vg.result, vg.mask, vg.unit) ])

VgNext ==
    \/ VgEnter
    \/ VgMask
    \/ VgFeather
    \/ VgApply
    \/ VgApplyAgain

DepthIdle ==
    /\ call = "none"
    /\ pd = PdIdle
    /\ vg = VgIdle

DepthInit ==
    \/ /\ call = "pseudo_depth"
       /\ pd \in { PdStart(roi) : roi \in FaceRois }
       /\ vg = VgIdle
    \/ /\ call = "vignette"
       /\ pd = PdIdle
       /\ vg \in { VgStart(src, sx, sy, fs) :
                     src \in FaceRois, sx \in Scales, sy \in Scales,
                     fs \in FeatherSigmas }

(***************************************************************************)
(* Specifications                                                          *)
(***************************************************************************)

\* the liveness check, alone
Init == LiveInit /\ PiInit /\ DepthIdle
Next == LiveNext
Spec == Init /\ [][Next]_vars

\* the liveness check with its own steps taken whenever one is possible; a
\* key press in an OpenCV window is an event of the outside and may never
\* come
ProgramStep == LiveNext /\ pc \notin {"wait_key_1", "wait_key_2"}
SpecTerm == Init /\ [][Next]_vars /\ WF_vars(ProgramStep)

\* a server process that runs one check after another
SpecCallsNext == LiveNext \/ Invoke
SpecCalls == Init /\ [][SpecCallsNext]_vars

\* the Pi before the quit key, with no liveness check running on the server
LiveIdle ==
    /\ LiveInit
    /\ frame_ok /\ ssim /\ image = "ramp"

SpecPiInit == LiveIdle /\ PiInit /\ DepthIdle
SpecPiNext == PiNext
SpecPi == SpecPiInit /\ [][SpecPiNext]_vars

\* the threads take their next step whenever they have one
MainStep == MainLoop \/ MainDetect
CaptureStep ==
    \E i \in 1 .. Len(captures) :
       \/ CaptureIr(i) \/ CaptureRgb(i) \/ SendAndDecide(i)
       \/ Relock(i) \/ FinishCapture(i)
KeypadStep == KeypadResponse \/ KeypadGrant \/ KeypadRelock

\* the main loop and its capture threads alone, scheduled again and again,
\* with nobody at the keypad
CaptureNext ==
    \/ Tick
    \/ MainLoop
    \/ MainDetect
    \/ \E i \in 1 .. Len(captures) : CaptureIr(i)
    \/ \E i \in 1 .. Len(captures) : CaptureRgb(i)
    \/ \E i \in 1 .. Len(captures) : SendAndDecide(i)
    \/ \E i \in 1 .. Len(captures) : Relock(i)
    \/ \E i \in 1 .. Len(captures) : FinishCapture(i)
SpecCaptureFair ==
    /\ SpecPiInit /\ [][CaptureNext]_vars
    /\ WF_vars(Tick) /\ WF_vars(MainStep) /\ WF_vars(CaptureStep)

\* the Pi from the moment a code has been entered and sent to the keypad
\* server (line 124), with every thread scheduled again and again and nobody
\* at the keypad afterwards
CodeSent ==
    /\ now = 0
    /\ main_loop_running = TRUE
    /\ awaiting_server_response = FALSE
    /\ keypad_unlocked = FALSE
    /\ last_recognition_time = 0
    /\ face_detected_first_time = NoTime
    /\ LOCK_RELAY = "LOW"
    /\ captures = <<>>
    /\ entered_code = <<>>
    /\ keypad = [ KeypadIdle EXCEPT !.pc = "verify", !.payload = <<"1">> ]
    /\ main_pc = "top"
    /\ face_run = TRUE
    /\ streaming_active = FALSE
    /\ latest_frame_for_stream = "None"
    /\ stop_stream = "idle"
    /\ since_stop = FALSE
    /\ stream_client = StreamClientIdle
CodeSentNext ==
    \/ Tick
    \/ MainLoop
    \/ MainDetect
    \/ \E i \in 1 .. Len(captures) : CaptureIr(i)
    \/ \E i \in 1 .. Len(captures) : CaptureRgb(i)
    \/ \E i \in 1 .. Len(captures) : SendAndDecide(i)
    \/ \E i \in 1 .. Len(captures) : Relock(i)
    \/ \E i \in 1 .. Len(captures) : FinishCapture(i)
    \/ KeypadResponse
    \/ KeypadGrant
    \/ KeypadRelock
SpecCodeSentInit == LiveIdle /\ CodeSent /\ DepthIdle
SpecCodeSentFair ==
    /\ SpecCodeSentInit /\ [][CodeSentNext]_vars
    /\ WF_vars(Tick) /\ WF_vars(MainStep) /\ WF_vars(CaptureStep)
    /\ WF_vars(KeypadStep)

\* the Pi serving its camera stream
SpecStreamInit == SpecPiInit
SpecStreamNext == StreamNext
SpecStream == SpecStreamInit /\ [][SpecStreamNext]_vars

\* one call of the pseudo-depth generator or of the vignette utility
SpecDepthInit == LiveIdle /\ PiInit /\ DepthInit
SpecDepthNext == PdNext \/ VgNext
SpecDepth == SpecDepthInit /\ [][SpecDepthNext]_vars


(***************************************************************************)
(* Properties of perform_liveness_check                                    *)
(***************************************************************************)
Returned == pc = "done" /\ outcome = "returned"

\* failures that the handler of the comparison's try block absorbs
CompareFailures == {"DepthModelError", "InvalidRoi", "DisplayError", "SsimError"}

\* failures that skip the comparison or end the check before it
SkipFailures == {"NoFace", "NotEnoughDots", "HeatmapFailure", "DepthModelNotLoaded"}

\* C1: fail-closed. The check returns True only when a score was computed
\* and passed the threshold of its metric; when no face was detected, 5 or
\* fewer dots were kept, the heatmap could not be built, the depth model was
\* not loaded or the comparison raised, it returns False.
C1_FailClosed ==
    Returned =>
       /\ is_live => /\ metric # None
                     /\ failure = None
                     /\ IF metric = "SSIM"
                        THEN Greater(similarity_score, SIMILARITY_THRESHOLD)
                        ELSE Less(similarity_score, MSE_THRESHOLD)
       /\ failure \in SkipFailures \cup CompareFailures => ~ is_live

C1_Witness == Returned /\ is_live /\ metric = "SSIM"

\* C3: an exception raised while extracting the model depth ROI, resizing,
\* scoring or thresholding leaves is_live = False and score = -1.0, and the
\* check still returns: the exception does not reach the caller.
C3_CompareErrorDefaults ==
    failure \in CompareFailures =>
       /\ ~ is_live
       /\ similarity_score = DefaultScore
       /\ outcome # "raised"
       /\ pc \in {"return", "done"}

C3_Witness == Returned /\ failure = "SsimError" /\ ~ is_live

\* C4: only an input error (malformed frame, degenerate face region) ends
\* the check without a verdict; no other failure raises to the caller or
\* terminates the process.
C4_OnlyInputErrorAborts ==
    pc = "done" /\ outcome \in {"raised", "exited"} => failure = "InputError"

\* C5: a face region that is degenerate after clamping makes the check
\* raise an input error to its caller; no verdict is returned.
C5_DegenerateRaises ==
    pc = "done" /\ face # NoFace /\ DegenerateRoi(ClampRoi(face, FrameW, FrameH))
       => outcome = "raised"

\* C6: a clamped region accepted as non-degenerate lies inside the frame.
C6_ClampedInsideFrame ==
    clamped # NoRoi /\ ~ DegenerateRoi(clamped) =>
       /\ 0 <= clamped.fx_c
       /\ 0 <= clamped.fy_c
       /\ clamped.fx_c + clamped.fw_c <= FrameW
       /\ clamped.fy_c + clamped.fh_c <= FrameH

\* C7: with a low dot count (1 to 5 dots in the face region) and the depth
\* model loaded, the heatmap and scoring stages still execute and a verdict
\* is returned.
LowDotCount == 1 <= Len(face_dot_coords) /\ Len(face_dot_coords) <= MinDots

C7_LowCountStillScores ==
    pc = "done" /\ LowDotCount /\ depth_model # None /\ depth_processor # None
       => /\ outcome = "returned"
          /\ heatmap_norm # NoHeatmap
          /\ failure # "NotEnoughDots"

\* C8: for every dot set with at least one point the heatmap is built and,
\* once the fill step has run, none of its cells is NaN.
HeatmapStageDone ==
    pc \in {"compare", "clamp_roi", "show_depth", "wait_key_1", "show_clamped",
            "wait_key_2", "resize", "score", "threshold", "return"}

C8_HeatmapNoNaN ==
    HeatmapStageDone /\ Len(face_dot_coords) >= 1 =>
       /\ heatmap_norm # NoHeatmap
       /\ \A rc \in DOMAIN heatmap_norm.cells : heatmap_norm.cells[rc] # NaN

\* C9: the verdict follows the polarity of the metric that scored: with
\* SSIM it is live exactly when score > SIMILARITY_THRESHOLD, with MSE
\* exactly when score < MSE_THRESHOLD; the metric is SSIM exactly when ssim
\* was imported.
C9_MetricPolarity ==
    pc \in {"return", "done"} /\ metric # None =>
       /\ metric = "SSIM" <=> ssim
       /\ metric = "SSIM" =>
             (is_live <=> Greater(similarity_score, SIMILARITY_THRESHOLD))
       /\ metric = "MSE" =>
             (is_live <=> Less(similarity_score, MSE_THRESHOLD))

C9_Witness == Returned /\ metric = "MSE" /\ is_live /\ similarity_score = 4

\* C10: the window handed to ssim is odd, at most 7 and at most either side
\* of the heatmap.
C10_WindowFits ==
    win_size # NoWin =>
       /\ win_size % 2 = 1
       /\ win_size <= MaxWin
       /\ win_size <= heatmap_norm.h
       /\ win_size <= heatmap_norm.w

\* C11: when the shapes differ it is the model's depth map that is resized:
\* once the resize step has run, the depth map has the heatmap's shape and
\* the heatmap still has the shape it was built with, (fh, fw) of the face.
C11_DepthResizedToHeatmap ==
    pc \in {"score", "threshold"} =>
       /\ depth_shape = << heatmap_norm.h, heatmap_norm.w >>
       /\ << heatmap_norm.h, heatmap_norm.w >> = << face.fh, face.fw >>

C11_Witness ==
    /\ pc = "threshold"
    /\ SliceShape(clamped, FrameW, FrameH) # << heatmap_norm.h, heatmap_norm.w >>
    /\ heatmap_norm.h # heatmap_norm.w

\* the filter loop over all_keypoints has run
FilterDone == gray = "inverted" /\ pc # "filter_blobs"

StrictlyInside(p) ==
    /\ face.fx < p[1] /\ p[1] < face.fx + face.fw
    /\ face.fy < p[2] /\ p[2] < face.fy + face.fh

\* C12: a detected blob is kept exactly when its centroid is strictly inside
\* the face box (dots on the border or outside are dropped), each kept once,
\* and the keypoint, coordinate and intensity lists have equal length.
C12_KeptIffStrictlyInside ==
    FilterDone =>
       /\ Len(face_keypoints) = Len(face_dot_coords)
       /\ Len(face_dot_intensities) = Len(face_dot_coords)
       /\ \A i \in 1 .. Len(face_dot_coords) : StrictlyInside(face_dot_coords[i])
       /\ \A k \in 1 .. Len(all_keypoints) :
             StrictlyInside(all_keypoints[k]) =>
                \E i \in 1 .. Len(face_dot_coords) :
                   face_dot_coords[i] = all_keypoints[k]
       /\ Len(face_dot_coords) =
             Cardinality({ k \in 1 .. Len(all_keypoints) :
                             StrictlyInside(all_keypoints[k]) })

C12_Witness ==
    /\ FilterDone
    /\ Len(face_dot_coords) > 0
    /\ \E k \in 1 .. Len(all_keypoints) :
          /\ all_keypoints[k][1] = face.fx
          /\ face.fy < all_keypoints[k][2] /\ all_keypoints[k][2] < face.fy + face.fh

\* C13: the intensity stored for a kept dot is the value of the original
\* grayscale frame (before inversion and enhancement) at its centroid.
C13_IntensityFromOriginal ==
    FilterDone =>
       \A i \in 1 .. Len(face_dot_coords) :
          face_dot_intensities[i] =
             GrayPixel(image, Max2(0, Min2(face_dot_coords[i][1], FrameW - 1)),
                              Max2(0, Min2(face_dot_coords[i][2], FrameH - 1)))

\* C19: every invocation of perform_liveness_check runs to completion
\* without waiting on an event of the outside (a key press, a window event):
\* it terminates for every input frame.
C19_Terminates == <>(pc = "done")

\* C20: the check keeps no state between invocations: it writes no
\* module-level name (the configuration is only read), and every invocation
\* starts from fresh locals.
C20_NoStateBetweenChecks ==
    /\ module_globals = ModuleConfig
    /\ pc = "entry" =>
          /\ is_live = InitialIsLive /\ similarity_score = DefaultScore
          /\ metric = None /\ heatmap_norm = NoHeatmap /\ face = NoFace

C20_Witness == invocations = 1 /\ Returned /\ metric = "MSE" /\ is_live

(***************************************************************************)
(* Properties of the pseudo-depth generator and the vignette utility       *)
(***************************************************************************)
BlurCallsOdd(configured, calls) ==
    \A i \in 1 .. Len(calls) : \A j \in 1 .. 2 :
       /\ calls[i][j] % 2 = 1
       /\ calls[i][j] = IF configured[i][j] % 2 = 1 THEN configured[i][j]
                        ELSE configured[i][j] + 1

\* C14: every Gaussian blur (initial blur, final blur, vignette feather) is
\* called with odd kernel dimensions: the configured dimension k when k is
\* odd, k + 1 when k is even.
C14_BlurKernelsOdd ==
    /\ Len(pd.configured) = Len(pd.blur_calls)
    /\ BlurCallsOdd(pd.configured, pd.blur_calls)
    /\ Len(vg.configured) = Len(vg.blur_calls)
    /\ BlurCallsOdd(vg.configured, vg.blur_calls)

C14_Witness ==
    /\ pd.returned = "image"
    /\ Len(pd.blur_calls) = 2
    /\ pd.configured[1][2] % 2 = 0
    /\ pd.configured[2][1] % 2 = 0
    /\ "remask" \in { pd.stages[i] : i \in 1 .. Len(pd.stages) }

\* the binary mask of the pseudo-depth pipeline, applied to the masked image
BinaryMaskIdempotent ==
    pd.pc \in {"resize", "done"} /\ pd.mask # NoImage
       => bitwise_and(pd.img, pd.mask) = pd.img

\* the vignette, applied to its own result with the same arguments
VignetteIdempotent ==
    vg.pc = "done" /\ vg.returned = "image" => vg.twice = vg.result

\* C15: applying the elliptical mask twice gives the same image as applying
\* it once, for the binary mask of the pseudo-depth pipeline and for
\* apply_elliptical_vignette with the same scale and feather arguments.
C15_MaskIdempotent == BinaryMaskIdempotent /\ VignetteIdempotent

StageOrder ==
    << "blur", "normalize", "mask", "resize", "colorize", "brightness",
       "final_blur", "remask" >>

StageIndex(st) == CHOOSE i \in 1 .. Len(StageOrder) : StageOrder[i] = st

\* C16: the stages run in the order blur, normalize, mask, resize, colorize,
\* brightness, final blur, and every returned image had the final blur and
\* then the final re-mask as its last two steps.
C16_FinalBlurAndRemaskLast ==
    pd.returned = "image" =>
       /\ \A i, j \in 1 .. Len(pd.stages) :
             i < j => StageIndex(pd.stages[i]) < StageIndex(pd.stages[j])
       /\ Len(pd.stages) >= 2
       /\ SubSeq(pd.stages, Len(pd.stages) - 1, Len(pd.stages))
             = << "final_blur", "remask" >>

\* C17: for a non-empty crop, the failure of a single stage still ends in a
\* returned image.
C17_SingleFailureStillReturns ==
    pd.pc = "done" /\ ~ IsEmpty(pd.face_roi) /\ Cardinality(pd.failed) = 1
       => pd.returned = "image"

(***************************************************************************)
(* Properties of the Pi and the /recognize route                           *)
(***************************************************************************)

\* C2: a face unlock is gated by liveness. While a capture thread holds the
\* lock relay HIGH, the liveness check of its capture was executed and
\* returned live.
C2_FaceUnlockNeedsLiveness ==
    \A i \in 1 .. Len(captures) :
       captures[i].pc = "unlocked" => captures[i].liveness = "live"

\* the capture threads that have not ended
RunningCaptures == { i \in 1 .. Len(captures) : captures[i].pc # "crashed" }

\* C18: at most one capture_and_send_sequence thread runs at any time, and
\* while one runs awaiting_server_response is set, under every interleaving
\* of the main loop, the capture thread and the keypad thread.
C18_OneCaptureAtATime ==
    /\ Cardinality(RunningCaptures) <= 1
    /\ RunningCaptures # {} => awaiting_server_response

C18_Witness ==
    /\ \E i \in RunningCaptures : captures[i].pc = "unlocked"
    /\ main_loop_running
    /\ keypad.pc = "unlocked"
    /\ face_detected_first_time = NoTime

\* a capture thread is in the 5-second sleep of a granted unlock
HoldingOpen == \E i \in 1 .. Len(captures) : captures[i].pc = "unlocked"

\* C21: every capture sequence eventually clears awaiting_server_response:
\* once the flag is set it is reset to False (at the latest when the 5-second
\* hold of a granted unlock is over), whatever fails in between, so the main
\* loop never stays in the Verifying state forever.
C21_FlagEventuallyCleared ==
    [](awaiting_server_response
         => <>(~ awaiting_server_response \/ HoldingOpen))

\* C22: on the face path the lock relay is driven HIGH only for a response
\* with status "success" whose name is that of an enrolled user: never for
\* "Unknown", "Error", "No Face Detected by Server", a "Known Face (... Error)"
\* placeholder, a liveness_failed response, an HTTP error or no response.
C22_RelayOnlyForEnrolledUser ==
    \A i \in 1 .. Len(captures) :
       captures[i].pc = "unlocked" =>
          /\ captures[i].result.code = 200
          /\ captures[i].result.status = "success"
          /\ ~ captures[i].result.liveness_failed
          /\ captures[i].result.name \in Users

\* the keypad thread is in the 5-second sleep of a granted code
KeypadHoldingOpen == keypad.pc = "unlocked"

\* C23: the keypad thread and a capture thread never hold the lock open in
\* overlapping intervals: while one of them holds LOCK_RELAY HIGH the other
\* does not drive it, so the relay is HIGH for the whole of every grant
\* interval and LOW whenever none is in progress.
C23_NoOverlappingUnlocks ==
    /\ ~ (KeypadHoldingOpen /\ HoldingOpen)
    /\ LOCK_RELAY = IF KeypadHoldingOpen \/ HoldingOpen THEN "HIGH" ELSE "LOW"

\* the main loop starts a capture thread in this step
CaptureStarts == Len(captures') > Len(captures)

\* C24: a capture sequence is started only after a face has been present
\* without interruption for at least FACE_DETECT_DELAY: when the thread is
\* started, every iteration since face_detected_first_time was set has run the
\* detection and found a face, and the delay has passed since then.
C24_StartsAfterContinuousFace ==
    [][CaptureStarts =>
          /\ face_detected_first_time # NoTime
          /\ now >= face_detected_first_time + FACE_DETECT_DELAY
          /\ face_run]_vars

\* the capture of thread i failed at some step or lacks one of the four images
Incomplete(i) ==
    \/ ~ captures[i].capture_success
    \/ ~ ({"ir_image", "rgb_image_1", "rgb_image_2", "rgb_image_3"}
             \subseteq captures[i].captured_files_dict)

\* C25: the capture thread posts to the recognition endpoint only when the
\* capture succeeded and all four images are present; after a failed capture
\* or encoding step no request is sent and the thread does not drive the lock
\* relay.
C25_PostsOnlyCompleteCapture ==
    \A i \in 1 .. Len(captures) :
       Incomplete(i) => ~ captures[i].posted /\ captures[i].pc # "unlocked"

C25_Witness ==
    \E i \in 1 .. Len(captures) :
       /\ captures[i].pc = "finish"
       /\ ~ captures[i].capture_success
       /\ "ir_image" \notin captures[i].captured_files_dict
       /\ ~ captures[i].posted
       /\ LOCK_RELAY = "LOW"

\* C26: after an unlock is granted at time t, by face or by keypad, the main
\* loop starts no capture sequence before t + COOLDOWN_SECONDS_ON_UNLOCK,
\* however the granting thread's writes interleave with the main loop's
\* reads: no capture thread is started while the current time is below
\* last_recognition_time.
C26_NoCaptureDuringCooldown ==
    [][CaptureStarts => ~ (now < last_recognition_time)]_vars

C28_KeypadUnlockedReset ==
    [](keypad_unlocked /\ now > last_recognition_time
         => <>(~ keypad_unlocked \/ now <= last_recognition_time))

\* C29: in every state of the keypad thread entered_code has at most 6
\* characters and contains neither '#' nor '*', and a verification request is
\* never sent for an empty code.
C29_CodeWellFormed ==
    /\ Len(entered_code) <= 6
    /\ \A k \in 1 .. Len(entered_code) : entered_code[k] \notin {"#", "*"}
    /\ keypad.pc = "verify" => keypad.payload # <<>>

C29_Witness ==
    /\ keypad.pc = "verify"
    /\ Len(keypad.payload) = 6
    /\ entered_code = <<>>

\* C30: after handle_stop_stream has returned, latest_frame_for_stream stays
\* None until handle_start_stream is next called, however the main loop's
\* frame update interleaves: no frame is held for a stream client while
\* streaming is inactive.
C30_NoFrameAfterStop ==
    since_stop => latest_frame_for_stream = "None"

====
